---- MODULE Spec2Model ----
(***************************************************************************)
(* Model of the Perplexity MCP server (undiabler/perplexity-openrouter-mcp) *)
(*                                                                         *)
(*   src/src/mcp_tools.py         lifespan, the two middlewares, the tools  *)
(*   src/src/perplexity_search.py PerplexitySearch (Query Service)          *)
(*   src/src/openrouter_client.py OpenRouterClient (Upstream Client handle) *)
(*                                                                         *)
(* A tool invocation is a coroutine; every `await` that can really suspend  *)
(* (the HTTP round trips, the connection's close) ends one atomic step.     *)
(***************************************************************************)
EXTENDS Integers, Sequences, FiniteSets, TLC

\* ------------------------------------------------------------------ bounds
\* number of invocation slots that may be in flight together
NumCalls == 2
\* number of close() calls a direct user of the handle makes (SpecHandle)
MaxCloses == 2

\* longest annotation list a chat-completion response carries (SpecCitations)
MaxAnnotations == 3

Calls == 1 .. NumCalls

\* --------------------------------------------------------- program constants
HTTP_OK == 200
BEARER_PREFIX == "Bearer "
BEARER_PREFIX_LEN == 7

MODEL_SEARCH == "perplexity/sonar"
MODEL_ASK == "perplexity/sonar-pro"
MODEL_RESEARCH == "perplexity/sonar-deep-research"
MODEL_REASON == "perplexity/sonar-reasoning-pro"

ToolNames ==
    {"perplexity_search", "perplexity_ask", "perplexity_research", "perplexity_reason"}

\* mutant: perplexity_ask is bound to the model of perplexity_search
ToolModel_AskUsesSearch(name) ==
    CASE name = "perplexity_search" -> MODEL_SEARCH
      [] name = "perplexity_ask" -> MODEL_SEARCH
      [] name = "perplexity_research" -> MODEL_RESEARCH
      [] name = "perplexity_reason" -> MODEL_REASON

\* the model each tool hands to PerplexitySearch._query
ToolModel(name) ==
    CASE name = "perplexity_search" -> MODEL_SEARCH
      [] name = "perplexity_ask" -> MODEL_ASK
      [] name = "perplexity_research" -> MODEL_RESEARCH
      [] name = "perplexity_reason" -> MODEL_REASON

\* tool.parameters of a tool declared `async def f(query: str)`
QuerySchema == [hasProperties |-> TRUE, properties |-> {"query"}]

\* mcp._tool_manager.get_tools() of this server: the four @mcp.tool() functions
RegisteredTools == [n \in ToolNames |-> QuerySchema]

\* ------------------------------------------------------------------ values
None == 0
EmptyMap == << >>
NoArguments == [none |-> TRUE, kv |-> EmptyMap]
Arguments(kv) == [none |-> FALSE, kv |-> kv]
NoMessage == [name |-> "", arguments |-> NoArguments]
NoHeader == [present |-> FALSE, value |-> ""]
Header(v) == [present |-> TRUE, value |-> v]
EnvUnset == [isSet |-> FALSE, value |-> ""]
EnvSet(v) == [isSet |-> TRUE, value |-> v]

\* ------------------------------------------------- ArgumentSanitizerMiddleware
\* message.arguments or {}
ArgumentsOrEmpty(arguments) == IF arguments.none THEN EmptyMap ELSE arguments.kv

\* mutant: a schema without properties is read as declaring `query`
ValidParams_DefaultQuery(tool) ==
    IF tool.hasProperties THEN tool.properties ELSE {"query"}

\* set(tool.parameters.get("properties", {}).keys())
ValidParams(tool) == IF tool.hasProperties THEN tool.properties ELSE {}

\* mutant: the comprehension without its `if k in valid_params`
CleanedArgs_KeepAll(arguments, valid_params) == arguments

\* {k: v for k, v in arguments.items() if k in valid_params}
CleanedArgs(arguments, valid_params) ==
    [k \in (DOMAIN arguments) \cap valid_params |-> arguments[k]]

\* the message ArgumentSanitizerMiddleware.on_call_tool hands to call_next
SanitizerForward(registry, message) ==
    LET arguments == ArgumentsOrEmpty(message.arguments)
    IN  IF message.name \in DOMAIN registry /\ DOMAIN arguments # {}
        THEN [name |-> message.name,
              arguments |->
                  Arguments(CleanedArgs(arguments, ValidParams(registry[message.name])))]
        ELSE message

\* ------------------------------------------------------- BearerAuthMiddleware
\* headers.get("authorization", "")
AuthHeader(headers) == IF headers.present THEN headers.value ELSE ""

\* auth_header.startswith(prefix)
StartsWith(s, prefix) ==
    Len(s) >= Len(prefix) /\ SubSeq(s, 1, Len(prefix)) = prefix

\* mutant: the slice starts one character early, auth_header[6:]
TokenOf_OffByOne(auth_header) ==
    SubSeq(auth_header, BEARER_PREFIX_LEN, Len(auth_header))

\* auth_header[7:]
TokenOf(auth_header) == SubSeq(auth_header, BEARER_PREFIX_LEN + 1, Len(auth_header))

\* `not expected_token`: os.getenv gave None or the empty string
TokenMissing(env) == ~env.isSet \/ env.value = ""

\* mutant: the token comparison is missing
BearerAuth_NoTokenCheck(headers, env) ==
    LET auth_header == AuthHeader(headers)
    IN  IF TokenMissing(env) THEN "Server misconfigured: MCP_BEARER_TOKEN not set"
        ELSE IF ~StartsWith(auth_header, BEARER_PREFIX)
             THEN "Unauthorized: Missing Bearer token"
        ELSE "forward"

\* mutant: the header is checked before the server's own configuration
BearerAuth_HeaderFirst(headers, env) ==
    LET auth_header == AuthHeader(headers)
    IN  IF ~StartsWith(auth_header, BEARER_PREFIX)
        THEN "Unauthorized: Missing Bearer token"
        ELSE IF TokenMissing(env) THEN "Server misconfigured: MCP_BEARER_TOKEN not set"
        ELSE IF TokenOf(auth_header) # env.value THEN "Unauthorized: Invalid token"
        ELSE "forward"

\* BearerAuthMiddleware.on_call_tool: "forward", or the ToolError it raises
BearerAuth(headers, env) ==
    LET auth_header == AuthHeader(headers)
    IN  IF TokenMissing(env) THEN "Server misconfigured: MCP_BEARER_TOKEN not set"
        ELSE IF ~StartsWith(auth_header, BEARER_PREFIX)
             THEN "Unauthorized: Missing Bearer token"
        ELSE IF TokenOf(auth_header) # env.value THEN "Unauthorized: Invalid token"
        ELSE "forward"

\* mutant: the two add_middleware calls in the other order
MiddlewareOrder_AuthFirst == <<"authenticator", "sanitizer">>

\* the middlewares in the order of the add_middleware calls: the first added
\* is the first to run
MiddlewareOrder == <<"sanitizer", "authenticator">>

\* the stage an invocation enters first
FirstStage == MiddlewareOrder[1]

\* what call_next of a middleware runs: the next middleware, or the tool
StageAfter(stage) ==
    IF stage = MiddlewareOrder[1] THEN MiddlewareOrder[2] ELSE "tool"

\* `return await call_next(context)`: a middleware hands back what the next
\* stage returned
CallNextResult(result) == result

\* ---------------------------------------------------------- OpenRouterClient
\* mutant: the status check is missing, every answer counts as success
KeyAccepted_AnyStatus(status_code) == TRUE

\* _validate_api_key: response.status_code != 200 raises ValueError
KeyAccepted(status_code) == status_code = HTTP_OK

\* mutant: _get_client never validates, it returns self._client as it is
NeedsValidation_Never(cl) == FALSE

\* _get_client: `if self._client is None`
NeedsValidation(cl) == cl = None

\* choice.message as the upstream sent it -> the dict chat_completion returns:
\* `choice.message.content or ""`, and the annotations when the message has any
CompletionOf(message) ==
    [content |-> IF message.hasContent THEN message.content ELSE "",
     annotations |-> message.annotations]

\* --------------------------------------------------------- PerplexitySearch
\* an annotation list that is None
NoAnnotations == [none |-> TRUE, list |-> << >>]
AnnotationList(list) == [none |-> FALSE, list |-> list]

\* the default `{}` of ann.get("url_citation", {}) and getattr(ann, "url_citation", {})
EmptyCitation ==
    [shape |-> "dict", hasUrl |-> FALSE, url |-> "", hasTitle |-> FALSE, title |-> ""]

\* mutant: only dict-shaped annotations are read, an object has no type
AnnType_DictOnly(ann) ==
    IF ann.shape = "dict" THEN (IF ann.hasType THEN ann.type ELSE "") ELSE ""

\* ann.get("type") for a dict, getattr(ann, "type", None) for an object; the
\* empty string stands for None
AnnType(ann) ==
    IF ann.shape = "dict"
    THEN (IF ann.hasType THEN ann.type ELSE "")
    ELSE (IF ann.hasType THEN ann.type ELSE "")

\* ann.get("url_citation", {}) for a dict, getattr(ann, "url_citation", {}) else
UrlCitationOf(ann) ==
    IF ann.shape = "dict"
    THEN (IF ann.hasCitation THEN ann.citation ELSE EmptyCitation)
    ELSE (IF ann.hasCitation THEN ann.citation ELSE EmptyCitation)

\* url_citation.get("url", "") for a dict, getattr(url_citation, "url", "") else
UrlOf(url_citation) ==
    IF url_citation.shape = "dict"
    THEN (IF url_citation.hasUrl THEN url_citation.url ELSE "")
    ELSE (IF url_citation.hasUrl THEN url_citation.url ELSE "")

\* mutant: no default, a record without title gets the empty title
TitleOf_NoDefault(url_citation, url) ==
    IF url_citation.hasTitle THEN url_citation.title ELSE ""

\* url_citation.get("title", url) for a dict, getattr(url_citation, "title", url)
\* else: the default is taken only when the title is absent
TitleOf(url_citation, url) ==
    IF url_citation.shape = "dict"
    THEN (IF url_citation.hasTitle THEN url_citation.title ELSE url)
    ELSE (IF url_citation.hasTitle THEN url_citation.title ELSE url)

\* one turn of the loop of _format_citations: what it appends to sources
SourcesOf(ann) ==
    LET url_citation == UrlCitationOf(ann)
        url == UrlOf(url_citation)
        title == TitleOf(url_citation, url)
    IN  IF AnnType(ann) = "url_citation" /\ url # ""
        THEN << [url |-> url, title |-> title] >>
        ELSE << >>

RECURSIVE CitationsOf(_)
\* the loop of _format_citations over the annotation list
CitationsOf(list) ==
    IF list = << >> THEN << >> ELSE SourcesOf(Head(list)) \o CitationsOf(Tail(list))

\* PerplexitySearch._format_citations: `if not annotations: return []`
FormatCitations(content, annotations) ==
    IF annotations.none \/ annotations.list = << >>
    THEN << >>
    ELSE CitationsOf(annotations.list)

\* no value returned
NoValue == [shape |-> "none", answer |-> "", sources |-> << >>]

\* PerplexitySearch._query: the dict {"answer": ..., "sources": ...} it returns
QueryResult(response) ==
    [shape |-> "dict",
     answer |-> response.content,
     sources |-> FormatCitations(response.content, response.annotations)]

\* the tool function: `return await get_search().perplexity_search(query)`
ToolReturn(value) == value

\* ------------------------------------------------------------------- state
VARIABLES
    tools,       \* mcp._tool_manager.get_tools(): tool name -> parameter schema
    env,         \* os.getenv("MCP_BEARER_TOKEN")
    search,      \* mcp_tools._search is not None
    lifespan,    \* "running" | "closing" (inside `await _search.close()`) | "stopped"
                 \* | "crashed" (the finally block raised)
    client,      \* OpenRouterClient._client: None or the index of a connection
    conns,       \* every AsyncOpenAI created so far
    closePc,     \* a direct close() call: "idle" | "awaiting" (inside
                 \* `await self._client.close()`) | "raised"
    closes,      \* close() calls that have returned
    calls        \* the invocations

vars == <<tools, env, search, lifespan, client, conns, closePc, closes, calls>>

\* no answer received
NoUpstreamMessage == [hasContent |-> FALSE, content |-> "", annotations |-> NoAnnotations]

IdleCall ==
    [pc |-> "idle",
     headers |-> NoHeader,         \* the request's Authorization header
     message |-> NoMessage,        \* context.message as received
     ctx |-> NoMessage,            \* context.message handed to the current stage
     trace |-> << >>,              \* the stages the invocation was handed to
     authIn |-> NoMessage,         \* context.message the authenticator received
     toolIn |-> NoMessage,         \* context.message the tool manager received
     stage |-> "",                 \* where the invocation ended
     error |-> "",                 \* the exception that ended it
     reachedService |-> FALSE,     \* the tool function ran get_search()
     model |-> "",                 \* model of the chat-completion request
     validations |-> 0,            \* GET /auth/key requests issued
     status |-> 0,                 \* status code the validation answered
     chats |-> 0,                  \* chat-completion requests issued
     client |-> None,              \* the client _get_client returned
     created |-> None,             \* the connection this call created
     clientPhase |-> "",           \* lifespan phase when _get_client returned
     firstWave |-> FALSE,          \* started before any complete call had ended
     closesAtStart |-> 0,          \* close() calls completed when complete began
     clientAtStart |-> None,       \* self._client when complete began
     result |-> "",                \* "ToolResult" once the tool function returned
     upstream |-> NoUpstreamMessage, \* choice.message of the upstream's answer
     value |-> NoValue,            \* the value the tool function returned
     response |-> ""]              \* what the caller of the chain received

Ended(c) == calls[c].pc \in {"done", "failed"}

\* -------------------------------------------------------------- input sets
GoodToken == "s3cret"

HeaderChoices ==
    {NoHeader, Header("Bearer s3cret"), Header("Bearer wrong"), Header("Bearer "),
     Header("Basic s3cret"), Header("bearer s3cret"), Header("s3cret")}

EnvChoices == {EnvUnset, EnvSet(""), EnvSet(GoodToken)}

NameChoices == ToolNames \cup {"unknown_tool"}

ArgKeys == {"query", "tool", "toolCallId"}
ArgValues == {"q1", "q2"}
AllMaps == UNION {[S -> ArgValues] : S \in SUBSET ArgKeys}

ChainArgs ==
    {NoArguments, Arguments(EmptyMap), Arguments([query |-> "q1"]),
     Arguments([query |-> "q1", toolCallId |-> "q2"]), Arguments([toolCallId |-> "q2"])}

ChainInputs ==
    [headers : HeaderChoices,
     message : [name : NameChoices, arguments : ChainArgs]]

SessionInputs ==
    [headers : {Header("Bearer s3cret"), NoHeader},
     message : [name : {"perplexity_search", "perplexity_reason"},
                arguments : {Arguments([query |-> "q1"])}]]

SanitizerInputs ==
    [headers : {Header("Bearer s3cret")},
     message : [name : NameChoices,
                arguments : {NoArguments} \cup {Arguments(m) : m \in AllMaps}]]

\* registries the sanitizer may be handed by the tool manager
NoPropertiesSchema == [hasProperties |-> FALSE, properties |-> {}]
NoParamsSchema == [hasProperties |-> TRUE, properties |-> {}]
Registries ==
    {RegisteredTools,
     [RegisteredTools EXCEPT !["perplexity_reason"] = NoPropertiesSchema],
     [RegisteredTools EXCEPT !["perplexity_reason"] = NoParamsSchema]}

StatusChoices == {200, 401}

\* annotation records of either shape
Ann(shape, hasType, type, hasCitation, citation) ==
    [shape |-> shape, hasType |-> hasType, type |-> type,
     hasCitation |-> hasCitation, citation |-> citation]
Cit(shape, hasUrl, url, hasTitle, title) ==
    [shape |-> shape, hasUrl |-> hasUrl, url |-> url,
     hasTitle |-> hasTitle, title |-> title]

AnnotationChoices ==
    {Ann("dict", TRUE, "url_citation", TRUE, Cit("dict", TRUE, "https://x.test", TRUE, "X")),
     Ann("object", TRUE, "url_citation", TRUE, Cit("object", TRUE, "https://y.test", TRUE, "Y")),
     Ann("dict", TRUE, "url_citation", TRUE, Cit("dict", TRUE, "https://x.test", FALSE, "")),
     Ann("object", TRUE, "url_citation", TRUE, Cit("object", TRUE, "https://y.test", TRUE, "")),
     Ann("dict", TRUE, "url_citation", TRUE, Cit("object", TRUE, "https://y.test", FALSE, "")),
     Ann("dict", TRUE, "url_citation", TRUE, Cit("dict", TRUE, "", TRUE, "X")),
     Ann("dict", TRUE, "url_citation", TRUE, Cit("dict", FALSE, "", TRUE, "X")),
     Ann("object", TRUE, "url_citation", FALSE, EmptyCitation),
     Ann("dict", TRUE, "file_citation", TRUE, Cit("dict", TRUE, "https://x.test", TRUE, "X")),
     Ann("object", FALSE, "", TRUE, Cit("object", TRUE, "https://y.test", TRUE, "Y"))}

RECURSIVE ListsUpTo(_)
ListsUpTo(n) ==
    IF n = 0 THEN {<< >>}
    ELSE LET shorter == ListsUpTo(n - 1)
         IN  shorter \cup {Append(l, a) : l \in shorter, a \in AnnotationChoices}

\* choice.message of the upstream's answers
UpstreamMessage(hasContent, content, annotations) ==
    [hasContent |-> hasContent, content |-> content, annotations |-> annotations]

CitationMessages ==
    {UpstreamMessage(TRUE, "Paris is the capital.", a) :
        a \in {NoAnnotations} \cup {AnnotationList(l) : l \in ListsUpTo(MaxAnnotations)}}

SessionMessages ==
    {UpstreamMessage(TRUE, "Paris is the capital.", NoAnnotations),
     UpstreamMessage(FALSE, "",
         AnnotationList(<<Ann("dict", TRUE, "url_citation", TRUE,
                              Cit("dict", TRUE, "https://x.test", TRUE, "X"))>>))}

\* ----------------------------------------------------------------- actions
\* call_next(context): the invocation enters `stage` with context.message m
Hand(r, stage, m) ==
    [r EXCEPT !.pc = stage,
              !.ctx = m,
              !.trace = Append(@, stage),
              !.authIn = IF stage = "authenticator" THEN m ELSE @,
              !.toolIn = IF stage = "tool" THEN m ELSE @]

\* the transport hands a tools/call request to the middleware chain
Receive(c, inp) ==
    /\ lifespan = "running"
    /\ calls[c].pc = "idle"
    /\ calls' = [calls EXCEPT ![c] =
                    Hand([IdleCall EXCEPT !.headers = inp.headers,
                                          !.message = inp.message],
                         FirstStage, inp.message)]
    /\ UNCHANGED <<tools, env, search, lifespan, client, conns, closePc, closes>>

\* ArgumentSanitizerMiddleware.on_call_tool up to call_next(context)
ArgumentSanitizer(c) ==
    /\ calls[c].pc = "sanitizer"
    /\ calls' = [calls EXCEPT ![c] =
                    Hand(@, StageAfter("sanitizer"),
                         SanitizerForward(tools, calls[c].ctx))]
    /\ UNCHANGED <<tools, env, search, lifespan, client, conns, closePc, closes>>

\* BearerAuthMiddleware.on_call_tool up to call_next(context), or its raise
BearerAuthenticator(c) ==
    /\ calls[c].pc = "authenticator"
    /\ LET r == BearerAuth(calls[c].headers, env)
       IN  calls' = [calls EXCEPT ![c] =
                IF r = "forward"
                THEN Hand(@, StageAfter("authenticator"), calls[c].ctx)
                ELSE [@ EXCEPT !.pc = "failed", !.stage = "authenticator", !.error = r,
                               !.response = CallNextResult(r)]]
    /\ UNCHANGED <<tools, env, search, lifespan, client, conns, closePc, closes>>

\* a complete call that has begun and has returned or raised
CompleteEnded(d) == calls[d].model # "" /\ Ended(d)

\* OpenRouterClient.chat_completion up to its first suspension: _get_client
\* either awaits the key validation or returns self._client, and then the
\* chat-completion request is issued
BeginComplete(r, model) ==
    LET r1 == [r EXCEPT !.model = model,
                        !.firstWave = (\A d \in Calls : ~CompleteEnded(d)),
                        !.closesAtStart = closes,
                        !.clientAtStart = client]
    IN  IF NeedsValidation(client)
        THEN [r1 EXCEPT !.pc = "validating", !.validations = @ + 1]
        ELSE [r1 EXCEPT !.pc = "requesting", !.client = client,
                        !.clientPhase = lifespan, !.chats = @ + 1]

\* the tool manager finds the tool and validates the arguments against the
\* signature (query: str); the tool function runs get_search() and the
\* PerplexitySearch method bound to its model
ToolCall(c) ==
    /\ calls[c].pc = "tool"
    /\ LET m == calls[c].toolIn
           kv == ArgumentsOrEmpty(m.arguments)
       IN  calls' = [calls EXCEPT ![c] =
                IF m.name \notin DOMAIN tools
                THEN [@ EXCEPT !.pc = "failed", !.stage = "dispatch",
                               !.error = "NotFoundError: Unknown tool",
                               !.response = "NotFoundError: Unknown tool"]
                ELSE IF DOMAIN kv # {"query"}
                THEN [@ EXCEPT !.pc = "failed", !.stage = "dispatch",
                               !.error = "ValidationError",
                               !.response = "ValidationError"]
                ELSE IF ~search
                THEN [@ EXCEPT !.pc = "failed", !.stage = "tool",
                               !.reachedService = TRUE,
                               !.error = "RuntimeError: PerplexitySearch not initialized",
                               !.response =
                                   "RuntimeError: PerplexitySearch not initialized"]
                ELSE BeginComplete([@ EXCEPT !.reachedService = TRUE],
                                   ToolModel(m.name))]
    /\ UNCHANGED <<tools, env, search, lifespan, client, conns, closePc, closes>>

\* a caller that owns the handle calls chat_completion directly
CompleteCall(c, model) ==
    /\ calls[c].pc = "idle"
    /\ calls' = [calls EXCEPT ![c] = BeginComplete(IdleCall, model)]
    /\ UNCHANGED <<tools, env, search, lifespan, client, conns, closePc, closes>>

\* mutant: _query catches the failure and returns an empty result
OnCompleteError_Swallow(r, stage, err) ==
    [r EXCEPT !.pc = "done", !.stage = "tool", !.result = "ToolResult",
              !.value = [shape |-> "dict", answer |-> "", sources |-> << >>],
              !.response = "ToolResult"]

\* mutant: a failed chat-completion request is sent once more
OnCompleteError_Retry(r, stage, err) ==
    IF stage = "upstream" /\ r.chats < 2
    THEN [r EXCEPT !.chats = @ + 1]
    ELSE [r EXCEPT !.pc = "failed", !.stage = stage, !.error = err, !.response = err]

\* chat_completion raised: neither _query nor the tool function catches, the
\* exception leaves the chain as it is and no value is returned
OnCompleteError(r, stage, err) ==
    [r EXCEPT !.pc = "failed", !.stage = stage, !.error = err,
              !.response = CallNextResult(CallNextResult(err))]

\* the auth endpoint answers: _validate_api_key raises, or _get_client creates
\* the AsyncOpenAI, stores it in self._client and the request is issued
ValidateReturn(c, status_code) ==
    /\ calls[c].pc = "validating"
    /\ IF KeyAccepted(status_code)
       THEN /\ conns' = Append(conns, [state |-> "open", born |-> lifespan,
                                        closesBefore |-> closes, releases |-> 0])
            /\ client' = Len(conns) + 1
            /\ calls' = [calls EXCEPT ![c].pc = "requesting",
                                      ![c].status = status_code,
                                      ![c].created = Len(conns) + 1,
                                      ![c].client = Len(conns) + 1,
                                      ![c].clientPhase = lifespan,
                                      ![c].chats = @ + 1]
       ELSE /\ calls' = [calls EXCEPT ![c] =
                            OnCompleteError([@ EXCEPT !.status = status_code],
                                            "validation",
                                            "ValueError: Invalid OpenRouter API key")]
            /\ UNCHANGED <<client, conns>>
    /\ UNCHANGED <<tools, env, search, lifespan, closePc, closes>>

\* the chat-completion request returns or raises; a released connection
\* delivers no response
ChatReturn(c, ok, message) ==
    /\ calls[c].pc = "requesting"
    /\ ok => conns[calls[c].client].state = "open"
    /\ calls' = [calls EXCEPT ![c] =
            IF ok
            THEN [@ EXCEPT !.pc = "done", !.stage = "tool", !.result = "ToolResult",
                           !.upstream = message,
                           !.value = ToolReturn(QueryResult(CompletionOf(message))),
                           !.response = CallNextResult(CallNextResult("ToolResult"))]
            ELSE OnCompleteError(@, "upstream", "UpstreamError")]
    /\ UNCHANGED <<tools, env, search, lifespan, client, conns, closePc, closes>>

\* the response has been delivered; the transport serves the next request
Finish(c) ==
    /\ Ended(c)
    /\ calls' = [calls EXCEPT ![c] = IdleCall]
    /\ UNCHANGED <<tools, env, search, lifespan, client, conns, closePc, closes>>

\* mutant: close() without its `if self._client is not None`
CloseReleases_Always(cl) == TRUE

\* OpenRouterClient.close: `if self._client is not None`
CloseReleases(cl) == cl # None

\* mutant: close() without its `self._client = None`
ClientAfterClose_Kept(cl) == cl

\* OpenRouterClient.close: `self._client = None`
ClientAfterClose(cl) == None

\* `await self._client.close()`: the AsyncOpenAI is released
Released(cs, cl) ==
    [cs EXCEPT ![cl].state = "closed", ![cl].releases = @ + 1]

\* lifespan's finally: `await _search.close()` up to the connection's close;
\* with no client, close returns at once and `_search = None` follows
TeardownBegin ==
    /\ lifespan = "running"
    /\ closePc = "idle"
    /\ IF CloseReleases(client)
       THEN IF client = None
            THEN \* None has no close(): the finally block raises AttributeError
                 /\ lifespan' = "crashed"
                 /\ UNCHANGED <<search, closes, conns>>
            ELSE /\ conns' = Released(conns, client)
                 /\ lifespan' = "closing"
                 /\ UNCHANGED <<search, closes>>
       ELSE /\ lifespan' = "stopped"
            /\ search' = FALSE
            /\ closes' = closes + 1
            /\ UNCHANGED conns
    /\ UNCHANGED <<tools, env, client, closePc, calls>>

\* the connection's close returned: `self._client = None`, then `_search = None`
TeardownEnd ==
    /\ lifespan = "closing"
    /\ client' = ClientAfterClose(client)
    /\ search' = FALSE
    /\ lifespan' = "stopped"
    /\ closes' = closes + 1
    /\ UNCHANGED <<tools, env, conns, closePc, calls>>

\* a caller that owns the handle calls close()
CloseBegin ==
    /\ closePc = "idle"
    /\ closes < MaxCloses
    /\ IF CloseReleases(client)
       THEN IF client = None
            THEN \* None has no close(): close() raises AttributeError
                 /\ closePc' = "raised"
                 /\ UNCHANGED <<conns, closes>>
            ELSE /\ conns' = Released(conns, client)
                 /\ closePc' = "awaiting"
                 /\ UNCHANGED closes
       ELSE /\ closes' = closes + 1
            /\ UNCHANGED <<conns, closePc>>
    /\ UNCHANGED <<tools, env, search, lifespan, client, calls>>

CloseEnd ==
    /\ closePc = "awaiting"
    /\ client' = ClientAfterClose(client)
    /\ closePc' = "idle"
    /\ closes' = closes + 1
    /\ UNCHANGED <<tools, env, search, lifespan, conns, calls>>

\* ---------------------------------------------------------- specifications
InitState(registry, token) ==
    /\ tools = registry
    /\ env = token
    /\ search = TRUE
    /\ lifespan = "running"
    /\ client = None
    /\ conns = << >>
    /\ closePc = "idle"
    /\ closes = 0
    /\ calls = [c \in Calls |-> IdleCall]

\* one session serving concurrent invocations
Init == InitState(RegisteredTools, EnvSet(GoodToken))

Next ==
    \/ \E c \in Calls : \E inp \in SessionInputs : Receive(c, inp)
    \/ \E c \in Calls : ArgumentSanitizer(c)
    \/ \E c \in Calls : BearerAuthenticator(c)
    \/ \E c \in Calls : ToolCall(c)
    \/ \E c \in Calls : \E s \in StatusChoices : ValidateReturn(c, s)
    \/ \E c \in Calls : \E ok \in BOOLEAN : \E m \in SessionMessages : ChatReturn(c, ok, m)
    \/ TeardownBegin
    \/ TeardownEnd

Spec == Init /\ [][Next]_vars

\* one session serving one invocation after another, over every input
InitChain == \E token \in EnvChoices : InitState(RegisteredTools, token)

NextChain ==
    \/ \E inp \in ChainInputs : Receive(1, inp)
    \/ ArgumentSanitizer(1)
    \/ BearerAuthenticator(1)
    \/ ToolCall(1)
    \/ \E s \in StatusChoices : ValidateReturn(1, s)
    \/ \E ok \in BOOLEAN : \E m \in SessionMessages : ChatReturn(1, ok, m)
    \/ Finish(1)
    \/ TeardownBegin
    \/ TeardownEnd

SpecChain == InitChain /\ [][NextChain]_vars

\* the sanitizer alone, over every argument mapping and tool schema
InitSanitizer == \E registry \in Registries : InitState(registry, EnvSet(GoodToken))

NextSanitizer ==
    \/ \E inp \in SanitizerInputs : Receive(1, inp)
    \/ ArgumentSanitizer(1)

SpecSanitizer == InitSanitizer /\ [][NextSanitizer]_vars

\* the handle used directly: concurrent chat_completion calls and close()
NextHandle ==
    \/ \E c \in Calls : \E model \in {MODEL_SEARCH, MODEL_ASK} : CompleteCall(c, model)
    \/ \E c \in Calls : \E s \in StatusChoices : ValidateReturn(c, s)
    \/ \E c \in Calls : \E ok \in BOOLEAN : \E m \in SessionMessages : ChatReturn(c, ok, m)
    \/ CloseBegin
    \/ CloseEnd

SpecHandle == Init /\ [][NextHandle]_vars

\* one query after another on the Query Service, over every annotation list
NextCitations ==
    \/ \E model \in {MODEL_SEARCH, MODEL_ASK} : CompleteCall(1, model)
    \/ \E s \in StatusChoices : ValidateReturn(1, s)
    \/ \E ok \in BOOLEAN : \E m \in CitationMessages : ChatReturn(1, ok, m)
    \/ Finish(1)

SpecCitations == Init /\ [][NextCitations]_vars

\* ================================================================== claims
\* the spec's failure classes, by the exception the code raises
IsConfigurationError(e) == e = "Server misconfigured: MCP_BEARER_TOKEN not set"
IsAuthenticationError(e) ==
    e \in {"Unauthorized: Missing Bearer token", "Unauthorized: Invalid token",
           "ValueError: Invalid OpenRouter API key"}

NoTokenConfigured == ~env.isSet \/ env.value = ""
PastAuthenticator(c) == calls[c].pc \notin {"idle", "sanitizer", "authenticator"}
PastSanitizer(c) == calls[c].pc \notin {"idle", "sanitizer"}
RejectedByAuthenticator(c) ==
    calls[c].pc = "failed" /\ calls[c].stage = "authenticator"
NoUpstreamUse(c) ==
    /\ ~calls[c].reachedService
    /\ calls[c].validations = 0
    /\ calls[c].chats = 0
MapOf(arguments) == IF arguments.none THEN << >> ELSE arguments.kv
LiveConns == {i \in DOMAIN conns : conns[i].state = "open"}

\* C1: among the complete calls started on a fresh handle before any of them
\* has ended, at most one issues the key-validation request.
C1_ValidatedAtMostOnce ==
    Cardinality({c \in Calls : calls[c].firstWave /\ calls[c].validations > 0}) <= 1

\* C2: a call has issued a chat-completion request only if some key validation
\* on the handle has answered 200, and a call whose validation answered another
\* status has failed with the authentication error and issued no
\* chat-completion request.
C2_NoChatWithoutValidation ==
    \A c \in Calls :
        /\ calls[c].chats > 0 => \E d \in Calls : calls[d].status = 200
        /\ calls[c].status \notin {0, 200} =>
               /\ calls[c].pc = "failed"
               /\ IsAuthenticationError(calls[c].error)
               /\ calls[c].chats = 0

\* C2 witness: one call was refused by the auth endpoint and has failed, while
\* another one, validated, has its chat-completion request in flight.
C2_Witness ==
    \E c, d \in Calls :
        /\ calls[c].status = 401 /\ calls[c].pc = "failed"
        /\ calls[d].status = 200 /\ calls[d].chats = 1

\* the header is absent, lacks the prefix, or carries another token than the
\* configured one
BadHeader(c) ==
    LET h == calls[c].headers
    IN  \/ ~h.present
        \/ ~StartsWith(h.value, "Bearer ")
        \/ (~NoTokenConfigured /\ SubSeq(h.value, 8, Len(h.value)) # env.value)

\* C3 (as claimed): every invocation with an absent, unprefixed or mismatched
\* Authorization header is rejected with an AuthenticationError-class failure
\* and never reaches the Query Service.
C3_BadHeaderIsAuthError ==
    \A c \in Calls :
        PastAuthenticator(c) /\ BadHeader(c) =>
            /\ RejectedByAuthenticator(c)
            /\ IsAuthenticationError(calls[c].error)
            /\ NoUpstreamUse(c)

\* C3 (amended): such an invocation is always rejected by the authenticator and
\* never reaches the Query Service; the failure is of the AuthenticationError
\* class whenever the server has an expected token configured.
C3_BadHeaderRejected ==
    \A c \in Calls :
        PastAuthenticator(c) /\ BadHeader(c) =>
            /\ RejectedByAuthenticator(c)
            /\ NoUpstreamUse(c)
            /\ ~NoTokenConfigured => IsAuthenticationError(calls[c].error)

\* C3 witness: with a token configured, a Bearer header carrying another token
\* has been rejected.
C3_Witness ==
    \E c \in Calls :
        /\ ~NoTokenConfigured
        /\ calls[c].headers = Header("Bearer wrong")
        /\ RejectedByAuthenticator(c)

\* C4: with no expected token configured, every invocation the authenticator
\* has handled failed there with the ConfigurationError-class failure, not an
\* AuthenticationError-class one, and never reached the Query Service.
C4_MisconfiguredFailsClosed ==
    NoTokenConfigured =>
        \A c \in Calls :
            PastAuthenticator(c) =>
                /\ RejectedByAuthenticator(c)
                /\ IsConfigurationError(calls[c].error)
                /\ ~IsAuthenticationError(calls[c].error)
                /\ NoUpstreamUse(c)

\* C4 witness: the token is unset and an invocation without any Authorization
\* header has been failed by the authenticator.
C4_Witness ==
    \E c \in Calls :
        /\ ~env.isSet
        /\ ~calls[c].headers.present
        /\ RejectedByAuthenticator(c)

\* C5: an invocation whose header is "Bearer " followed by exactly the
\* configured token is not rejected by the authenticator, the next stage
\* receives the message the authenticator received, and the caller receives
\* what the next stage returned or raised.
C5_MatchingTokenForwards ==
    \A c \in Calls :
        (/\ ~NoTokenConfigured
         /\ calls[c].headers = Header("Bearer " \o env.value)
         /\ PastAuthenticator(c)) =>
            /\ ~RejectedByAuthenticator(c)
            /\ calls[c].toolIn = calls[c].authIn
            /\ calls[c].pc = "done" => calls[c].response = calls[c].result
            /\ calls[c].pc = "failed" => calls[c].response = calls[c].error

\* C5 witness: an invocation with the matching token, whose arguments the
\* sanitizer had cleaned, has returned the tool's result.
C5_Witness ==
    \E c \in Calls :
        /\ calls[c].headers = Header("Bearer " \o env.value)
        /\ calls[c].message.arguments = Arguments([query |-> "q1", toolCallId |-> "q2"])
        /\ calls[c].toolIn.arguments = Arguments([query |-> "q1"])
        /\ calls[c].pc = "done"

\* the parameter set the tool's schema declares
Declared(name) == IF tools[name].hasProperties THEN tools[name].properties ELSE {}

\* C6: for a registered tool the sanitizer forwards the same tool name and
\* exactly the entries whose key the tool declares, values unchanged, and the
\* invocation goes on to the next stage.
C6_SanitizerRestricts ==
    \A c \in Calls :
        PastSanitizer(c) /\ calls[c].message.name \in DOMAIN tools =>
            LET in == MapOf(calls[c].message.arguments)
                out == MapOf(calls[c].authIn.arguments)
            IN  /\ calls[c].authIn.name = calls[c].message.name
                /\ DOMAIN out = (DOMAIN in) \cap Declared(calls[c].message.name)
                /\ \A k \in DOMAIN out : out[k] = in[k]
                /\ calls[c].stage # "sanitizer"

\* C6 witness: a mapping with `query` and two foreign keys has been forwarded
\* as `query` alone, value kept.
C6_Witness ==
    \E c \in Calls :
        /\ calls[c].message =
               [name |-> "perplexity_ask",
                arguments |-> Arguments([query |-> "q2", tool |-> "q1", toolCallId |-> "q1"])]
        /\ calls[c].authIn =
               [name |-> "perplexity_ask", arguments |-> Arguments([query |-> "q2"])]

C8_NoClientAfterTeardownBegins ==
    /\ \A c \in Calls : calls[c].client # None => calls[c].clientPhase = "running"
    /\ \A i \in DOMAIN conns : conns[i].born = "running"
    /\ lifespan = "stopped" => client = None

\* the call began complete after a close() that came after connection i was
\* created had returned, and i is released
BegunAfterRelease(c, i) ==
    /\ conns[i].state = "closed"
    /\ conns[i].closesBefore < calls[c].closesAtStart

\* C9: a complete call begun after close() has completed on a handle that had
\* been opened neither succeeds, nor validates the key, nor opens a connection.
C9_ClosedHandleUnusable ==
    \A c \in Calls :
        (\E i \in DOMAIN conns : BegunAfterRelease(c, i)) =>
            /\ calls[c].pc # "done"
            /\ calls[c].validations = 0
            /\ calls[c].created = None

\* C10: at most one connection is live, and every live connection is the one
\* the handle references.
C10_AtMostOneLiveConnection ==
    /\ Cardinality(LiveConns) <= 1
    /\ \A i \in LiveConns : client = i

\* C11: close() never raises; no connection is released more than once however
\* many close() calls follow one another; and once a close() has returned the
\* handle holds no client, unless a complete call stored one after that
\* close() returned.
C11_CloseIdempotent ==
    /\ closePc # "raised"
    /\ \A i \in DOMAIN conns : conns[i].releases <= 1
    /\ (closePc = "idle" /\ closes > 0 /\ client # None) =>
           conns[client].closesBefore = closes

\* C11 witness: two close() calls have returned on a handle that had opened one
\* connection; it was released once and the handle holds no client.
C11_Witness ==
    /\ closes = 2
    /\ closePc = "idle"
    /\ client = None
    /\ Len(conns) = 1
    /\ conns[1].releases = 1

\* C12: teardown never raises; while the session runs close() has not been
\* called and the service reference is set; once teardown has ended close() has
\* been called exactly once and the service reference is cleared.
C12_TeardownClosesOnce ==
    /\ lifespan # "crashed"
    /\ lifespan \in {"running", "closing"} => closes = 0 /\ search
    /\ lifespan = "stopped" => closes = 1 /\ ~search

\* C12 witness: teardown has ended on a session whose only key validation was
\* refused, so that no connection was ever opened.
C12_Witness ==
    /\ lifespan = "stopped"
    /\ conns = << >>
    /\ \E c \in Calls : calls[c].status = 401 /\ calls[c].pc = "failed"

\* an annotation of the citation type whose url is there and not empty
Cited(ann) ==
    /\ ann.hasType /\ ann.type = "url_citation"
    /\ ann.hasCitation /\ ann.citation.hasUrl /\ ann.citation.url # ""

\* the cited annotations of the answer call c received, in the answer's order
CitedAnnotations(c) == SelectSeq(calls[c].upstream.annotations.list, Cited)

\* C13: the sources of a returned result are the url_citation annotations with
\* a non-empty url, one source each, in the order of the annotation list; an
\* absent or empty list gives no source.
C13_ExactlyTheCitations ==
    \A c \in Calls :
        calls[c].pc = "done" =>
            LET cited == CitedAnnotations(c)
                sources == calls[c].value.sources
            IN  /\ Len(sources) = Len(cited)
                /\ \A i \in 1 .. Len(cited) : sources[i].url = cited[i].citation.url

\* C13 witness: an object-shaped citation, a dict-shaped record of another type
\* and a dict-shaped citation gave the two citations, in that order.
C13_Witness ==
    \E c \in Calls :
        /\ calls[c].pc = "done"
        /\ Len(calls[c].upstream.annotations.list) = 3
        /\ calls[c].upstream.annotations.list[1].shape = "object"
        /\ calls[c].upstream.annotations.list[2].type = "file_citation"
        /\ calls[c].upstream.annotations.list[3].shape = "dict"
        /\ calls[c].value.sources =
               << [url |-> "https://y.test", title |-> "Y"],
                  [url |-> "https://x.test", title |-> "X"] >>

\* C14 (as claimed): the title of each source is the annotation's title when
\* that is present and not empty, and the url when it is absent or empty.
C14_TitleOrUrl ==
    \A c \in Calls :
        calls[c].pc = "done" /\ Len(calls[c].value.sources) = Len(CitedAnnotations(c)) =>
            \A i \in 1 .. Len(CitedAnnotations(c)) :
                LET cit == CitedAnnotations(c)[i].citation
                IN  calls[c].value.sources[i].title =
                        IF cit.hasTitle /\ cit.title # "" THEN cit.title ELSE cit.url

\* C14 (amended): the title of each source is the annotation's title when the
\* record has one, empty or not, and the url when the record has none.
C14_TitleOrUrlWhenAbsent ==
    \A c \in Calls :
        calls[c].pc = "done" /\ Len(calls[c].value.sources) = Len(CitedAnnotations(c)) =>
            \A i \in 1 .. Len(CitedAnnotations(c)) :
                LET cit == CitedAnnotations(c)[i].citation
                IN  calls[c].value.sources[i].title =
                        IF cit.hasTitle THEN cit.title ELSE cit.url

\* C14 witness: of a dict-shaped and an object-shaped citation without title and
\* one with a title, the first two got their url as title and the third kept
\* its own.
C14_Witness ==
    \E c \in Calls :
        /\ calls[c].pc = "done"
        /\ calls[c].upstream.annotations.list =
               << Ann("dict", TRUE, "url_citation", TRUE,
                      Cit("dict", TRUE, "https://x.test", FALSE, "")),
                  Ann("dict", TRUE, "url_citation", TRUE,
                      Cit("object", TRUE, "https://y.test", FALSE, "")),
                  Ann("object", TRUE, "url_citation", TRUE,
                      Cit("object", TRUE, "https://y.test", TRUE, "Y")) >>
        /\ calls[c].value.sources =
               << [url |-> "https://x.test", title |-> "https://x.test"],
                  [url |-> "https://y.test", title |-> "https://y.test"],
                  [url |-> "https://y.test", title |-> "Y"] >>

\* C16: an invocation whose key validation was refused, or whose chat-completion
\* request failed, has failed with that very exception as the caller's response
\* and no value; a value exists only for an invocation that returned, after the
\* upstream answered.
C16_FailureYieldsNoResult ==
    \A c \in Calls :
        /\ calls[c].status \notin {0, 200} =>
               /\ calls[c].pc = "failed" /\ calls[c].stage = "validation"
               /\ calls[c].error = "ValueError: Invalid OpenRouter API key"
        /\ (calls[c].pc = "failed" /\ calls[c].stage \in {"validation", "upstream"}) =>
               /\ calls[c].error \in
                      {"ValueError: Invalid OpenRouter API key", "UpstreamError"}
               /\ calls[c].response = calls[c].error
               /\ calls[c].result = ""
               /\ calls[c].value = NoValue
        /\ calls[c].value # NoValue =>
               /\ calls[c].pc = "done"
               /\ calls[c].upstream # NoUpstreamMessage

\* C16 witness: one invocation failed on its key validation and another one on
\* its chat-completion request.
C16_Witness ==
    \E c, d \in Calls :
        /\ calls[c].pc = "failed" /\ calls[c].stage = "validation"
        /\ calls[d].pc = "failed" /\ calls[d].stage = "upstream"

\* C17: every invocation that returned, returned a single string (the answer
\* with the markdown sources list appended), never the {answer, sources} record.
C17_ReturnsOneString ==
    \A c \in Calls : calls[c].pc = "done" => calls[c].value.shape = "str"

\* C15: an invocation issues no chat-completion request before _get_client has
\* given it a client, exactly one once it has, and none after that one, also
\* when the request failed.
C15_OneRequestPerInvocation ==
    \A c \in Calls :
        /\ calls[c].chats <= 1
        /\ calls[c].client = None => calls[c].chats = 0
        /\ calls[c].client # None => calls[c].chats = 1
        /\ (calls[c].pc = "failed" /\ calls[c].stage = "upstream") => calls[c].chats = 1

\* C15 witness: an invocation validated the key, its chat-completion request
\* failed, and it ended having issued that one request.
C15_Witness ==
    \E c \in Calls :
        /\ calls[c].status = 200
        /\ calls[c].pc = "failed" /\ calls[c].stage = "upstream"
        /\ calls[c].chats = 1

\* the model identifier the spec binds to each tool
BoundModel(name) ==
    CASE name = "perplexity_search" -> "perplexity/sonar"
      [] name = "perplexity_ask" -> "perplexity/sonar-pro"
      [] name = "perplexity_research" -> "perplexity/sonar-deep-research"
      [] name = "perplexity_reason" -> "perplexity/sonar-reasoning-pro"

\* C18: every invocation that called the Upstream Client did so with the model
\* bound to its tool, and the four identifiers are pairwise distinct.
C18_FixedModelPerTool ==
    /\ Cardinality({ToolModel(n) : n \in ToolNames}) = 4
    /\ \A c \in Calls :
           calls[c].model # "" => calls[c].model = BoundModel(calls[c].toolIn.name)

\* C18 witness: a perplexity_research invocation served by a client an earlier
\* invocation had created has returned, its request made with
\* sonar-deep-research.
C18_Witness ==
    \E c \in Calls :
        /\ calls[c].toolIn.name = "perplexity_research"
        /\ calls[c].model = "perplexity/sonar-deep-research"
        /\ calls[c].created = None
        /\ calls[c].pc = "done"

\* the order of the stages the spec gives
StageOrder == <<"sanitizer", "authenticator", "tool">>

\* C19: an invocation goes through Argument Sanitizer, Bearer Authenticator and
\* tool in that order; the authenticator receives the sanitized arguments; the
\* Query Service is reached only after both interceptors forwarded; and an
\* invocation the authenticator rejected was handed to no later stage.
C19_StagesInOrder ==
    \A c \in Calls :
        /\ Len(calls[c].trace) <= 3
        /\ calls[c].trace = SubSeq(StageOrder, 1, Len(calls[c].trace))
        /\ (Len(calls[c].trace) >= 2 /\ calls[c].message.name \in DOMAIN tools) =>
               DOMAIN MapOf(calls[c].authIn.arguments) =
                   (DOMAIN MapOf(calls[c].message.arguments))
                       \cap Declared(calls[c].message.name)
        /\ calls[c].reachedService =>
               /\ calls[c].trace = StageOrder
               /\ calls[c].toolIn = calls[c].authIn
        /\ calls[c].stage = "authenticator" =>
               /\ calls[c].pc = "failed"
               /\ calls[c].trace = SubSeq(StageOrder, 1, 2)
               /\ NoUpstreamUse(c)

\* C19 witness: an invocation with a foreign argument key and a wrong token was
\* sanitized, then rejected by the authenticator, and went no further.
C19_Witness ==
    \E c \in Calls :
        /\ calls[c].message.arguments = Arguments([query |-> "q1", toolCallId |-> "q2"])
        /\ calls[c].authIn.arguments = Arguments([query |-> "q1"])
        /\ calls[c].headers = Header("Bearer wrong")
        /\ calls[c].pc = "failed"
        /\ calls[c].trace = <<"sanitizer", "authenticator">>

\* C20: a refused key validation stores no client, so the handle holds a client
\* only if a validation answered 200 and stored it; a complete call that finds
\* no client validates the key, whatever happened to the calls before it; and a
\* complete call that finds a client uses it without validating.
C20_FailedValidationNotCached ==
    /\ client # None =>
           \E d \in Calls : calls[d].status = 200 /\ calls[d].created = client
    /\ \A c \in Calls :
           /\ calls[c].status \notin {0, 200} =>
                  calls[c].created = None /\ calls[c].client = None
           /\ (calls[c].model # "" /\ calls[c].clientAtStart = None) =>
                  calls[c].validations = 1
           /\ (calls[c].model # "" /\ calls[c].clientAtStart # None) =>
                  /\ calls[c].validations = 0
                  /\ calls[c].client = calls[c].clientAtStart

\* C20 witness: a call's validation was refused; a call begun after that found
\* no client, validated the key again, was accepted and has returned.
C20_Witness ==
    \E c, d \in Calls :
        /\ calls[c].status = 401 /\ calls[c].pc = "failed"
        /\ ~calls[d].firstWave
        /\ calls[d].clientAtStart = None
        /\ calls[d].validations = 1
        /\ calls[d].status = 200
        /\ calls[d].pc = "done"
====
